---- MODULE Spec2Model ----
(***************************************************************************)
(* Model of src/dmi.rs of rust-g: the four DMI/PNG operations exposed to   *)
(* the BYOND host (strip metadata, create PNG, resize PNG, list icon       *)
(* states), acting on one icon path of a file system.                      *)
(*                                                                         *)
(* Strings are sequences of one-character strings (bytes), so that         *)
(* splitting, trimming, prefix tests, hex parsing and JSON quoting are     *)
(* computed as the code computes them.                                     *)
(***************************************************************************)
EXTENDS Integers, Sequences, FiniteSets

VARIABLES
    file,       \* what is stored at the icon path: NoFile, Garbage or a PNG
    dirExists,  \* whether the parent directory of the path exists
    width,      \* the host's width argument (a string)
    height,     \* the host's height argument (a string)
    data,       \* the host's pixel-stream argument (a string)
    resizetype, \* the host's filter-name argument
    op,         \* the operation that ran last
    ret,        \* its Result: [ok, err, val]
    out,        \* what the host received from the byond_fn wrapper
    stage,      \* the last step the operation reached
    states,     \* read_states: the Vec<String> collected so far
    result,     \* create_png: the Vec<u8> collected so far
    pre,        \* the file at the path before the last operation
    preDir,     \* dirExists before the last operation
    streak      \* successful strip_metadata calls in a row (saturating)

vars == <<file, dirExists, width, height, data, resizetype, op, ret, out,
          stage, states, result, pre, preDir, streak>>

(***************************************************************************)
(* Bounds of the model.                                                    *)
(***************************************************************************)
MaxLines == 3    \* lines of metadata text in one file, over all its chunks
MaxChunks == 2   \* zTXt chunks in one file
MaxTokens == 2   \* `#`-separated segments in one pixel stream

(***************************************************************************)
(* Generic sequence helpers.                                               *)
(***************************************************************************)
RECURSIVE Flatten(_)
Flatten(ss) == IF ss = <<>> THEN <<>> ELSE Head(ss) \o Flatten(Tail(ss))

SeqsUpTo(S, n) == UNION {[1..k -> S] : k \in 0..n}

Min(a, b) == IF a <= b THEN a ELSE b
Max(a, b) == IF a >= b THEN a ELSE b

None == [some |-> FALSE]
Some(v) == [some |-> TRUE, val |-> v]

(***************************************************************************)
(* str helpers of the Rust standard library used by read_states.           *)
(***************************************************************************)
Whitespace == {" ", "\t", "\n", "\r"}

\* str::starts_with
StartsWith(s, p) == Len(s) >= Len(p) /\ SubSeq(s, 1, Len(p)) = p

\* str::ends_with
EndsWith(s, p) == Len(s) >= Len(p) /\ SubSeq(s, Len(s) - Len(p) + 1, Len(s)) = p

\* str::contains: the pattern occurs at some offset
Contains(s, p) == \E i \in 1..(Len(s) - Len(p) + 1) : SubSeq(s, i, i + Len(p) - 1) = p

\* str::trim: drop leading and trailing whitespace
Trim(s) ==
    LET keep == {i \in 1..Len(s) : s[i] \notin Whitespace}
    IN  IF keep = {} THEN <<>>
        ELSE LET lo == CHOOSE i \in keep : \A j \in keep : i <= j
                 hi == CHOOSE i \in keep : \A j \in keep : i >= j
             IN  SubSeq(s, lo, hi)

\* str::strip_prefix: Option<&str>
StripPrefix(s, p) ==
    IF StartsWith(s, p) THEN Some(SubSeq(s, Len(p) + 1, Len(s))) ELSE None

\* str::strip_suffix: Option<&str>
StripSuffix(s, p) ==
    IF EndsWith(s, p) THEN Some(SubSeq(s, 1, Len(s) - Len(p))) ELSE None

\* str::lines: split at "\n", a final empty piece is not a line, and a "\r"
\* right before the "\n" is not part of the line
RECURSIVE Lines(_)
Lines(text) ==
    IF text = <<>> THEN <<>>
    ELSE LET nl == {i \in 1..Len(text) : text[i] = "\n"}
         IN  IF nl = {} THEN <<text>>
             ELSE LET i == CHOOSE k \in nl : \A j \in nl : k <= j
                      raw == SubSeq(text, 1, i - 1)
                      line == IF EndsWith(raw, <<"\r">>)
                              THEN SubSeq(raw, 1, Len(raw) - 1) ELSE raw
                  IN  <<line>> \o Lines(SubSeq(text, i + 1, Len(text)))

(***************************************************************************)
(* read_states: the scan of one decompressed zTXt chunk.                   *)
(***************************************************************************)
Sentinel == <<"#", " ", "E", "N", "D", " ", "D", "M", "I">>
StatePrefix == <<"s", "t", "a", "t", "e", " ", "=", " ", "\"">>
Quote == <<"\"">>

\* the closure of filter_map: Some(name) for a `state = "name"` line
\* (variant: the line is not trimmed)
state_name_bug_no_trim(line) ==
    LET rest == StripPrefix(line, StatePrefix)
    IN  IF rest.some THEN StripSuffix(rest.val, Quote) ELSE None

state_name(line) ==
    LET rest == StripPrefix(Trim(line), StatePrefix)
    IN  IF rest.some THEN StripSuffix(rest.val, Quote) ELSE None

\* the predicate of take_while
NotSentinel(line) == ~Contains(line, Sentinel)

\* Iterator::take_while with that predicate
\* (variant: sentinel lines are skipped and the scan goes on)
RECURSIVE SkipSentinels(_)
SkipSentinels(ls) ==
    IF ls = <<>> THEN <<>>
    ELSE (IF NotSentinel(Head(ls)) THEN <<Head(ls)>> ELSE <<>>)
         \o SkipSentinels(Tail(ls))

RECURSIVE TakeWhileNotSentinel(_)
TakeWhileNotSentinel(ls) ==
    IF ls = <<>> \/ ~NotSentinel(Head(ls)) THEN <<>>
    ELSE <<Head(ls)>> \o TakeWhileNotSentinel(Tail(ls))

RECURSIVE FilterMapNames(_)
FilterMapNames(ls) ==
    IF ls = <<>> THEN <<>>
    ELSE LET n == state_name(Head(ls))
         IN  (IF n.some THEN <<n.val>> ELSE <<>>) \o FilterMapNames(Tail(ls))

\* the names one chunk's text pushes onto `states`
scan_chunk(text) == FilterMapNames(TakeWhileNotSentinel(Lines(text)))

(***************************************************************************)
(* Result<T> and the kinds of crate::error::Error that dmi.rs can return.  *)
(***************************************************************************)
Ok(v) == [ok |-> TRUE, err |-> "", val |-> v]
Err(kind) == [ok |-> FALSE, err |-> kind, val |-> <<>>]

(***************************************************************************)
(* What can be stored at the path.  A PNG is kept as what its chunks say:  *)
(* IHDR (size, colour type, depth, interlacing), PLTE, tRNS, the three     *)
(* kinds of text chunk, and the image bytes of IDAT after inflating,       *)
(* unfiltering and de-interlacing; `complete` is FALSE for a file whose    *)
(* IDAT data is cut short.                                                 *)
(***************************************************************************)
NoFile == [kind |-> "none"]
Garbage == [kind |-> "garbage"]   \* not a PNG up to its first IDAT chunk

Png(w, h, ct, bd, il, pal, trns, ztxt, text, itxt, px, complete) ==
    [kind |-> "png", width |-> w, height |-> h, color_type |-> ct,
     bit_depth |-> bd, interlaced |-> il, palette |-> pal, trns |-> trns,
     ztxt |-> ztxt, text |-> text, itxt |-> itxt, pixels |-> px,
     complete |-> complete]

\* a zTXt chunk: its compressed payload inflates to `text`, or does not
ZTxt(t) == [bad |-> FALSE, text |-> t]
BadZTxt == [bad |-> TRUE, text |-> <<>>]

\* ZTXtChunk::get_text
get_text(chunk) == IF chunk.bad THEN Err("Decode") ELSE Ok(chunk.text)

(***************************************************************************)
(* PNG adapter: read_png and write_png.                                    *)
(***************************************************************************)
\* Decoder::new(File::open(path)?).read_info(): the Reader and its Info
read_info(f) ==
    IF f.kind = "none" THEN Err("Io")
    ELSE IF f.kind = "garbage" THEN Err("Decode")
    ELSE Ok([width |-> f.width, height |-> f.height,
             color_type |-> f.color_type, bit_depth |-> f.bit_depth,
             palette |-> f.palette, trns |-> f.trns,
             compressed_latin1_text |-> f.ztxt,
             uncompressed_latin1_text |-> f.text, utf8_text |-> f.itxt])

\* read_png: (reader, frame_info, image), or the first error
read_png(f) ==
    LET r == read_info(f)
    IN  IF ~r.ok THEN r
        ELSE IF ~f.complete THEN Err("Decode")
        ELSE Ok([reader |-> r.val,
                 frame_info |-> [width |-> f.width, height |-> f.height,
                                 color_type |-> f.color_type,
                                 bit_depth |-> f.bit_depth],
                 image |-> f.pixels])

\* the stage read_png stopped at
read_png_stage(f) ==
    IF f.kind = "none" THEN "open"
    ELSE IF f.kind = "garbage" \/ ~f.complete THEN "decode" ELSE "decoded"

\* write_png when nothing fails: the file the encoder produces
\* (variant: only the first zTXt chunk is dropped)
write_png_bug_keeps_first(reader, info, image, strip) ==
    Png(info.width, info.height, info.color_type, info.bit_depth, FALSE,
        reader.palette, reader.trns,
        IF strip /\ reader.compressed_latin1_text # <<>>
        THEN Tail(reader.compressed_latin1_text)
        ELSE reader.compressed_latin1_text,
        <<>>, <<>>, image, TRUE)

\* (variant: the palette is not written back)
write_png_bug_no_palette(reader, info, image, strip) ==
    Png(info.width, info.height, info.color_type, info.bit_depth, FALSE,
        None, reader.trns,
        IF strip THEN <<>> ELSE reader.compressed_latin1_text,
        <<>>, <<>>, image, TRUE)

write_png(reader, info, image, strip) ==
    Png(info.width, info.height, info.color_type, info.bit_depth, FALSE,
        reader.palette, reader.trns,
        IF strip THEN <<>> ELSE reader.compressed_latin1_text,
        <<>>, <<>>, image, TRUE)

\* every text chunk of a file: zTXt, tEXt and iTXt
TextChunks(f) == f.ztxt \o f.text \o f.itxt

(***************************************************************************)
(* Outcomes of the environment for one file-writing call.                  *)
(***************************************************************************)
IoOutcomes == {"ok", "mkdir", "create", "write"}

(***************************************************************************)
(* read_states and serde_json::to_string.                                  *)
(***************************************************************************)
\* serde_json's string escaping
json_escape(c) ==
    CASE c = "\"" -> <<"\\", "\"">>
      [] c = "\\" -> <<"\\", "\\">>
      [] c = "\n" -> <<"\\", "n">>
      [] c = "\r" -> <<"\\", "r">>
      [] c = "\t" -> <<"\\", "t">>
      [] OTHER -> <<c>>

RECURSIVE json_string(_)
json_string(s) ==
    IF s = <<>> THEN <<>> ELSE json_escape(Head(s)) \o json_string(Tail(s))

RECURSIVE json_items(_)
json_items(v) ==
    IF v = <<>> THEN <<>>
    ELSE Quote \o json_string(Head(v)) \o Quote
         \o (IF Tail(v) = <<>> THEN <<>> ELSE <<",">> \o json_items(Tail(v)))

\* serde_json::to_string(&Vec<String>)
to_string(v) == <<"[">> \o json_items(v) \o <<"]">>

\* the loop over info.compressed_latin1_text: [ok, states]; an error of
\* get_text ends the function
RECURSIVE scan_chunks(_, _)
scan_chunks(chunks, acc) ==
    IF chunks = <<>> THEN [ok |-> TRUE, states |-> acc]
    ELSE LET t == get_text(Head(chunks))
         IN  IF ~t.ok THEN [ok |-> FALSE, states |-> acc]
             ELSE scan_chunks(Tail(chunks), acc \o scan_chunk(t.val))

\* read_states: Result<String>
read_states(f) ==
    LET r == read_info(f)
    IN  IF ~r.ok THEN (IF r.err = "Io" THEN r ELSE Err("InvalidPngData"))
        ELSE LET s == scan_chunks(r.val.compressed_latin1_text, <<>>)
             IN  IF ~s.ok THEN Err("Decode") ELSE Ok(to_string(s.states))

\* the Vec `states` when read_states returns
read_states_vec(f) ==
    LET r == read_info(f)
    IN  IF ~r.ok THEN <<>>
        ELSE scan_chunks(r.val.compressed_latin1_text, <<>>).states

(***************************************************************************)
(* Integer parsing: core::num::from_str_radix, as used by                  *)
(* width.parse::<u32>() and u8::from_str_radix(channel, 16).               *)
(***************************************************************************)
DecDigits == <<"0", "1", "2", "3", "4", "5", "6", "7", "8", "9">>
LowerHex == <<"a", "b", "c", "d", "e", "f">>
UpperHex == <<"A", "B", "C", "D", "E", "F">>

IndexOf(seq, c) == CHOOSE i \in 1..Len(seq) : seq[i] = c
InSeq(seq, c) == \E i \in 1..Len(seq) : seq[i] = c

\* char::to_digit(radix): Some(value) or None
to_digit(c, radix) ==
    LET v == IF InSeq(DecDigits, c) THEN IndexOf(DecDigits, c) - 1
             ELSE IF InSeq(LowerHex, c) THEN IndexOf(LowerHex, c) + 9
             ELSE IF InSeq(UpperHex, c) THEN IndexOf(UpperHex, c) + 9
             ELSE radix
    IN  IF v < radix THEN Some(v) ELSE None

\* the digit loop with its overflow check; max is given as max \div radix
\* and max % radix
RECURSIVE parse_digits(_, _, _, _, _)
parse_digits(digits, radix, acc, maxDiv, maxMod) ==
    IF digits = <<>> THEN Ok(acc)
    ELSE LET d == to_digit(Head(digits), radix)
         IN  IF ~d.some THEN Err("ParseInt")
             ELSE IF acc > maxDiv \/ (acc = maxDiv /\ d.val > maxMod)
             THEN Err("ParseInt")
             ELSE parse_digits(Tail(digits), radix, acc * radix + d.val,
                               maxDiv, maxMod)

\* from_str_radix for an unsigned type: an empty string and a lone sign
\* are errors, one leading "+" is skipped, a "-" is an invalid digit
from_str_radix(src, radix, maxDiv, maxMod) ==
    IF src = <<>> THEN Err("ParseInt")
    ELSE IF Head(src) \in {"+", "-"} /\ Tail(src) = <<>> THEN Err("ParseInt")
    ELSE IF Head(src) = "+" THEN parse_digits(Tail(src), radix, 0, maxDiv, maxMod)
    ELSE parse_digits(src, radix, 0, maxDiv, maxMod)

U32MaxDiv10 == 429496729   \* u32::MAX \div 10
U32MaxMod10 == 5           \* u32::MAX % 10
U8MaxDiv16 == 15           \* u8::MAX \div 16
U8MaxMod16 == 15           \* u8::MAX % 16

\* str::parse::<u32>
parse_u32(s) == from_str_radix(s, 10, U32MaxDiv10, U32MaxMod10)

(***************************************************************************)
(* Bytes of the pixel stream.  ASCII bytes are one-character strings; the  *)
(* two bytes of the UTF-8 encoding of U+00E9 are written "<C3>" and "<A9>".*)
(***************************************************************************)
Utf8Lead2 == {"<C3>"}
Utf8Cont == {"<A9>"}

\* std::str::from_utf8 succeeds
RECURSIVE utf8_valid(_)
utf8_valid(bytes) ==
    IF bytes = <<>> THEN TRUE
    ELSE IF Head(bytes) \in Utf8Cont THEN FALSE
    ELSE IF Head(bytes) \in Utf8Lead2
         THEN Len(bytes) >= 2 /\ bytes[2] \in Utf8Cont
              /\ utf8_valid(Tail(Tail(bytes)))
    ELSE utf8_valid(Tail(bytes))

\* the characters of a valid UTF-8 byte string (a two-byte sequence is one
\* character, and no digit)
RECURSIVE utf8_chars(_)
utf8_chars(bytes) ==
    IF bytes = <<>> THEN <<>>
    ELSE IF Head(bytes) \in Utf8Lead2
         THEN <<"U+00E9">> \o utf8_chars(Tail(Tail(bytes)))
    ELSE <<Head(bytes)>> \o utf8_chars(Tail(bytes))

\* slice::split(|&b| b == b'#'): the pieces between the separators
RECURSIVE split_hash(_)
split_hash(bytes) ==
    LET at == {i \in 1..Len(bytes) : bytes[i] = "#"}
    IN  IF at = {} THEN <<bytes>>
        ELSE LET i == CHOOSE k \in at : \A j \in at : k <= j
             IN  <<SubSeq(bytes, 1, i - 1)>>
                 \o split_hash(SubSeq(bytes, i + 1, Len(bytes)))

\* slice::chunks_exact(2)
RECURSIVE chunks_exact2(_)
chunks_exact2(bytes) ==
    IF Len(bytes) < 2 THEN <<>>
    ELSE <<SubSeq(bytes, 1, 2)>> \o chunks_exact2(Tail(Tail(bytes)))

\* u8::from_str_radix(std::str::from_utf8(channel)?, 16)?
parse_channel(channel) ==
    IF ~utf8_valid(channel) THEN Err("Utf8")
    ELSE from_str_radix(utf8_chars(channel), 16, U8MaxDiv16, U8MaxMod16)

\* the inner loop over the channels of one pixel: the bytes pushed, or the
\* first error
RECURSIVE parse_channels(_, _)
parse_channels(channels, acc) ==
    IF channels = <<>> THEN Ok(acc)
    ELSE LET c == parse_channel(Head(channels))
         IN  IF ~c.ok THEN c
             ELSE parse_channels(Tail(channels), Append(acc, c.val))

\* one iteration of the loop over the pixels
\* (variant: no alpha byte is added after 6 digits)
parse_pixel_bug_no_alpha(pixel) ==
    IF Len(pixel) # 6 /\ Len(pixel) # 8 THEN Err("InvalidPngData")
    ELSE parse_channels(chunks_exact2(pixel), <<>>)

\* (variant: the length of the segment is not checked)
parse_pixel_bug_no_length_check(pixel) ==
    LET c == parse_channels(chunks_exact2(pixel), <<>>)
    IN  IF ~c.ok THEN c
        ELSE IF Len(pixel) = 6 THEN Ok(Append(c.val, 255)) ELSE c

parse_pixel(pixel) ==
    IF Len(pixel) # 6 /\ Len(pixel) # 8 THEN Err("InvalidPngData")
    ELSE LET c == parse_channels(chunks_exact2(pixel), <<>>)
         IN  IF ~c.ok THEN c
             ELSE IF Len(pixel) = 6 THEN Ok(Append(c.val, 255)) ELSE c

\* the loop over bytes.split(..).skip(1): the Vec `result` when the loop
\* ends, or the error of the first pixel that fails
RECURSIVE parse_pixels(_, _)
parse_pixels(pixels, acc) ==
    IF pixels = <<>> THEN Ok(acc)
    ELSE LET p == parse_pixel(Head(pixels))
         IN  IF ~p.ok THEN p
             ELSE parse_pixels(Tail(pixels), acc \o p.val)

\* Iterator::skip(1)
skip1(xs) == IF xs = <<>> THEN <<>> ELSE Tail(xs)

parse_pixel_stream(bytes) == parse_pixels(skip1(split_hash(bytes)), <<>>)

(***************************************************************************)
(* resize_png: image::open, DynamicImage::resize, save_with_format.        *)
(***************************************************************************)
FilterNames == {"catmull", "gaussian", "lanczos3", "nearest", "triangle"}

\* the match of dmi_resize_png on the filter name
filter_type(name) ==
    CASE name = "catmull" -> "CatmullRom"
      [] name = "gaussian" -> "Gaussian"
      [] name = "lanczos3" -> "Lanczos3"
      [] name = "nearest" -> "Nearest"
      [] name = "triangle" -> "Triangle"
      [] OTHER -> "Nearest"

\* x / y rounded to the nearest integer, halves upwards (f64::round of a
\* positive quotient)
RoundDiv(x, y) == (2 * x + y) \div (2 * y)

\* DynamicImage::resize keeps the aspect ratio: the image is scaled to the
\* largest size that fits within nwidth x nheight.  The crate computes the
\* size with integers (the quotient truncated) in its older releases and
\* with f64 (the quotient rounded, both sides at least 1) in its newer
\* ones; the set holds what either computes.
resize_dimensions(w, h, nwidth, nheight) ==
    LET use_width == nwidth * h <= w * nheight
        trunc == IF use_width THEN Max(1, (h * nwidth) \div w)
                 ELSE Max(1, (w * nheight) \div h)
        round == IF use_width THEN Max(1, RoundDiv(h * nwidth, w))
                 ELSE Max(1, RoundDiv(w * nheight, h))
    IN  IF use_width
        THEN {<<nwidth, trunc>>, <<Max(1, nwidth), round>>}
        ELSE {<<trunc, nheight>>, <<round, Max(1, nheight)>>}

\* the colour type of the DynamicImage the PNG decodes to: a palette is
\* expanded to RGB and a tRNS chunk to an alpha channel
expanded_color(ct, trns) ==
    CASE ct = "Indexed" -> IF trns.some THEN "Rgba" ELSE "Rgb"
      [] ct = "Rgb" -> IF trns.some THEN "Rgba" ELSE "Rgb"
      [] ct = "Grayscale" -> IF trns.some THEN "GrayscaleAlpha" ELSE "Grayscale"
      [] OTHER -> ct

expanded_depth(bd) == IF bd = 16 THEN 16 ELSE 8

samples(ct) ==
    CASE ct = "Grayscale" -> 1
      [] ct = "GrayscaleAlpha" -> 2
      [] ct = "Rgb" -> 3
      [] ct = "Rgba" -> 4
      [] OTHER -> 1

\* the PNG that save_with_format writes for the resized image; of its
\* samples only their number is kept (their values are the filter's)
resized_png(f, dims) ==
    LET ct == expanded_color(f.color_type, f.trns)
        bd == expanded_depth(f.bit_depth)
        n == dims[1] * dims[2] * samples(ct) * (bd \div 8)
    IN  Png(dims[1], dims[2], ct, bd, FALSE, None, None, <<>>, <<>>, <<>>,
            [i \in 1..n |-> 0], TRUE)

(***************************************************************************)
(* The byond_fn! wrapper: an Option handed back to the host as a string,   *)
(* None as the empty string.                                               *)
(***************************************************************************)
byond_return(opt) == IF opt.some THEN opt.val ELSE <<>>

\* Result::ok and Result::err; an Error is shown to the host as its text,
\* kept here as the one-element string of its kind
result_ok(r) == IF r.ok THEN Some(r.val) ELSE None
result_err(r) == IF r.ok THEN None ELSE Some(<<r.err>>)

(***************************************************************************)
(* The operations.  Each action is one call from the host; the arguments   *)
(* are the strings the host holds.                                         *)
(***************************************************************************)
Preflight == {"parse_width", "parse_height", "parse_data", "open", "decode"}

\* the state after a call: the file system, the Result and the history
Return(name, r, stg, f, d, o) ==
    /\ op' = name
    /\ ret' = r
    /\ stage' = stg
    /\ file' = f
    /\ dirExists' = d
    /\ out' = o
    /\ pre' = file
    /\ preDir' = dirExists
    /\ streak' = IF name = "strip_metadata" /\ r.ok THEN Min(streak + 1, 2) ELSE 0
    /\ UNCHANGED <<width, height, data, resizetype>>

\* a write that the environment cuts short leaves an empty or partial file
Torn(f) == {Garbage, [f EXCEPT !.complete = FALSE]}

\* strip_metadata, behind dmi_strip_metadata
\* (variant: the file is created before it is read)
strip_metadata_bug_writes_first(f, io) ==
    LET r == read_png(f)
        w == IF r.ok
             THEN write_png(r.val.reader, r.val.frame_info, r.val.image, TRUE)
             ELSE Garbage
    IN  {[ret |-> IF r.ok /\ io = "ok" THEN Ok(<<>>) ELSE Err("Io"),
          stage |-> IF r.ok THEN "written" ELSE read_png_stage(f),
          file |-> IF f.kind = "none" THEN f ELSE w]}

strip_metadata(f, io) ==
    LET r == read_png(f)
    IN  IF ~r.ok THEN {[ret |-> r, stage |-> read_png_stage(f), file |-> f]}
        ELSE LET w == write_png(r.val.reader, r.val.frame_info, r.val.image, TRUE)
             IN  IF io = "create"
                 THEN {[ret |-> Err("Io"), stage |-> "create", file |-> f]}
                 ELSE IF io = "write"
                 THEN {[ret |-> Err("Encode"), stage |-> "write", file |-> t] :
                         t \in Torn(w)}
                 ELSE {[ret |-> Ok(<<>>), stage |-> "written", file |-> w]}

StripMetadata ==
    \E io \in IoOutcomes \ {"mkdir"} : \E o \in strip_metadata(file, io) :
        /\ states' = <<>>
        /\ result' = <<>>
        /\ Return("strip_metadata", o.ret, o.stage, o.file, dirExists,
                  byond_return(result_err(o.ret)))

\* create_png, behind dmi_create_png: the outcomes [ret, stage, file, dir,
\* result] for one outcome of the environment
create_png(f, d, w, h, bytes, io) ==
    LET pw == parse_u32(w)
        ph == parse_u32(h)
        px == parse_pixel_stream(bytes)
        keep(r, stg) == {[ret |-> r, stage |-> stg, file |-> f, dir |-> d,
                          result |-> <<>>]}
    IN  IF ~pw.ok THEN keep(pw, "parse_width")
        ELSE IF ~ph.ok THEN keep(ph, "parse_height")
        ELSE IF ~px.ok THEN keep(px, "parse_data")
        ELSE IF ~d /\ io = "mkdir"
        THEN {[ret |-> Err("Io"), stage |-> "mkdir", file |-> f, dir |-> d,
               result |-> px.val]}
        ELSE IF io = "create"
        THEN {[ret |-> Err("Io"), stage |-> "create", file |-> f, dir |-> TRUE,
               result |-> px.val]}
        ELSE LET new == Png(pw.val, ph.val, "Rgba", 8, FALSE, None, None,
                            <<>>, <<>>, <<>>, px.val, TRUE)
             IN  IF pw.val = 0 \/ ph.val = 0
                 THEN {[ret |-> Err("Encode"), stage |-> "header",
                        file |-> Garbage, dir |-> TRUE, result |-> px.val]}
                 ELSE IF Len(px.val) # pw.val * ph.val * 4
                 THEN {[ret |-> Err("Encode"), stage |-> "data",
                        file |-> Garbage, dir |-> TRUE, result |-> px.val]}
                 ELSE IF io = "write"
                 THEN {[ret |-> Err("Encode"), stage |-> "write", file |-> t,
                        dir |-> TRUE, result |-> px.val] : t \in Torn(new)}
                 ELSE {[ret |-> Ok(<<>>), stage |-> "written", file |-> new,
                        dir |-> TRUE, result |-> px.val]}

CreatePng ==
    \E io \in IoOutcomes : \E o \in create_png(file, dirExists, width, height, data, io) :
        /\ states' = <<>>
        /\ result' = o.result
        /\ Return("create_png", o.ret, o.stage, o.file, o.dir,
                  byond_return(result_err(o.ret)))

\* resize_png, behind dmi_resize_png
resize_png(f, w, h, filter, io) ==
    LET pw == parse_u32(w)
        ph == parse_u32(h)
        keep(r, stg) == {[ret |-> r, stage |-> stg, file |-> f]}
    IN  IF ~pw.ok THEN keep(pw, "parse_width")
        ELSE IF ~ph.ok THEN keep(ph, "parse_height")
        ELSE IF ~read_png(f).ok THEN keep(read_png(f), read_png_stage(f))
        ELSE IF io = "create" THEN keep(Err("Io"), "create")
        ELSE UNION {
               LET new == resized_png(f, dims)
               IN  IF dims[1] = 0 \/ dims[2] = 0
                   THEN {[ret |-> Err("Encode"), stage |-> "header", file |-> Garbage]}
                   ELSE IF io = "write"
                   THEN {[ret |-> Err("Encode"), stage |-> "write", file |-> t] :
                           t \in Torn(new)}
                   ELSE {[ret |-> Ok(<<>>), stage |-> "written", file |-> new]} :
               dims \in resize_dimensions(f.width, f.height, pw.val, ph.val)}

ResizePng ==
    \E io \in IoOutcomes \ {"mkdir"} :
      \E o \in resize_png(file, width, height, filter_type(resizetype), io) :
        /\ states' = <<>>
        /\ result' = <<>>
        /\ Return("resize_png", o.ret, o.stage, o.file, dirExists,
                  byond_return(result_err(o.ret)))

\* dmi_icon_states: read_states(path).ok()
\* (variant: a failed read gives the empty array)
dmi_icon_states_bug_unwrap_default(f) ==
    IF read_states(f).ok THEN read_states(f).val ELSE to_string(<<>>)

dmi_icon_states(f) == byond_return(result_ok(read_states(f)))

IconStates ==
    /\ states' = read_states_vec(file)
    /\ result' = <<>>
    /\ Return("read_states", read_states(file),
              IF read_states(file).ok THEN "done" ELSE "failed",
              file, dirExists, dmi_icon_states(file))

(***************************************************************************)
(* Inputs: the metadata lines, the files and the argument strings the      *)
(* initial states are drawn from.                                          *)
(***************************************************************************)
LineStateA == StatePrefix \o <<"a", "\"">>
LineStateQuoted == <<" ">> \o StatePrefix \o <<"b", "\"", "c", "\"", "\t", "\r">>
LineSentinel == Sentinel
LineStateSentinel == StatePrefix \o Sentinel \o Quote
LineOpenQuote == StatePrefix
LineOther == <<"d", "i", "r", "s", " ", "=", " ", "4">>

LineSet == {LineStateA, LineStateQuoted, LineSentinel, LineStateSentinel,
            LineOpenQuote, LineOther}

\* the text of a chunk: its lines, each ended by "\n"
RECURSIVE TextOf(_)
TextOf(ls) == IF ls = <<>> THEN <<>> ELSE Head(ls) \o <<"\n">> \o TextOf(Tail(ls))

\* the ways to cut n lines into k chunks: the ends of the first k-1 chunks
Cuts(n, k) == {c \in [1..(k - 1) -> 0..n] : \A i \in 1..(k - 2) : c[i] <= c[i + 1]}

ChunksOf(ls, k, c) ==
    [i \in 1..k |->
        ZTxt(TextOf(SubSeq(ls, (IF i = 1 THEN 0 ELSE c[i - 1]) + 1,
                           IF i = k THEN Len(ls) ELSE c[i])))]

\* the zTXt chunk lists of at most MaxChunks chunks and MaxLines lines
ChunkLists ==
    {<<>>} \cup
    UNION {UNION {{ChunksOf(ls, k, c) : c \in Cuts(Len(ls), k)} : k \in 1..MaxChunks} :
             ls \in SeqsUpTo(LineSet, MaxLines)}

Rgba1x1(ztxt) ==
    Png(1, 1, "Rgba", 8, FALSE, None, None, ztxt, <<>>, <<>>, <<1, 2, 3, 4>>, TRUE)

\* DMI files: one geometry, every chunk list, and chunk lists with a chunk
\* that does not inflate
DmiFiles ==
    {Rgba1x1(z) : z \in ChunkLists}
    \cup {Rgba1x1(<<BadZTxt>>), Rgba1x1(<<ZTxt(TextOf(<<LineStateA>>)), BadZTxt>>)}

Meta == <<ZTxt(TextOf(<<LineStateA, LineSentinel>>)), ZTxt(TextOf(<<LineStateQuoted>>))>>
Comment == <<<<"C", "o", "m", "m", "e", "n", "t">>>>

\* PNG files of several colour types, depths and chunk sets
GeomFiles ==
    {Rgba1x1(Meta),
     Png(2, 1, "Indexed", 8, TRUE, Some(<<9, 8, 7, 6, 5, 4>>), Some(<<0>>),
         Meta, <<>>, <<>>, <<1, 0>>, TRUE),
     Png(1, 2, "Grayscale", 16, FALSE, None, Some(<<0, 5>>),
         <<>>, Comment, Comment, <<0, 5, 1, 0>>, TRUE),
     Png(2, 1, "Rgb", 8, TRUE, Some(<<1, 2, 3>>), None,
         <<ZTxt(TextOf(<<LineStateA>>))>>, Comment, <<>>, <<1, 2, 3, 4, 5, 6>>, TRUE),
     Png(2, 1, "Rgba", 8, FALSE, None, None,
         Meta, <<>>, <<>>, <<1, 2, 3, 4>>, FALSE),
     Garbage, NoFile}

\* width and height arguments
WHPairs ==
    {<<<<"1">>, <<"1">>>>, <<<<"2">>, <<"1">>>>, <<<<"1">>, <<"2">>>>,
     <<<<"+", "2">>, <<"2">>>>, <<<<"x">>, <<"1">>>>, <<<<"1">>, <<>>>>,
     <<<<"0">>, <<"1">>>>,
     <<<<"4", "2", "9", "4", "9", "6", "7", "2", "9", "6">>, <<"-", "1">>>>}

\* the sizes tried with every pixel stream
CreateSizes ==
    {<<<<"1">>, <<"1">>>>, <<<<"2">>, <<"1">>>>, <<<<"x">>, <<"1">>>>,
     <<<<"1">>, <<>>>>, <<<<"0">>, <<"1">>>>}

\* pixel-stream segments
SegRgb == <<"0", "a", "1", "B", "2", "c">>
SegRgba == <<"f", "F", "0", "0", "8", "0", "7", "f">>
SegPlus == <<"+", "f", "0", "0", "0", "0">>
SegNotHex == <<"g", "g", "0", "0", "0", "0">>
SegShort == <<"f", "f", "f">>
SegSeven == <<"1", "2", "3", "4", "5", "6", "7">>
SegAccent == <<"<C3>", "<A9>", "0", "0", "0", "0">>
SegSplitAccent == <<"0", "<C3>", "<A9>", "0", "0", "0">>

Segments == {SegRgb, SegRgba, SegPlus, SegNotHex, SegShort, <<>>, SegSeven,
             SegAccent, SegSplitAccent}

\* what stands before the first `#`
Leads == {<<>>, <<"P", "3">>}

RECURSIVE StreamOf(_)
StreamOf(segs) == IF segs = <<>> THEN <<>> ELSE <<"#">> \o Head(segs) \o StreamOf(Tail(segs))

Streams == {lead \o StreamOf(segs) : lead \in Leads, segs \in SeqsUpTo(Segments, MaxTokens)}

FewStreams == {StreamOf(<<SegRgb>>), StreamOf(<<SegRgb, SegRgba>>), StreamOf(<<SegShort>>)}

FilterArgs == FilterNames \cup {"bicubic"}

(***************************************************************************)
(* Specifications.                                                         *)
(***************************************************************************)
Start ==
    /\ op = "none"
    /\ ret = Ok(<<>>)
    /\ out = <<>>
    /\ stage = "none"
    /\ states = <<>>
    /\ result = <<>>
    /\ pre = file
    /\ preDir = dirExists
    /\ streak = 0

\* any file, any sizes, any filter; a few pixel streams
Init ==
    /\ file \in GeomFiles
    /\ dirExists \in (IF file = NoFile THEN BOOLEAN ELSE {TRUE})
    /\ \E wh \in WHPairs : width = wh[1] /\ height = wh[2]
    /\ data \in FewStreams
    /\ resizetype \in FilterArgs
    /\ Start

Next == StripMetadata \/ CreatePng \/ ResizePng \/ IconStates

Spec == Init /\ [][Next]_vars

\* DMI files with every metadata text
InitStates ==
    /\ file \in DmiFiles \cup {Garbage, NoFile}
    /\ dirExists = TRUE
    /\ width = <<"1">> /\ height = <<"1">>
    /\ data = StreamOf(<<SegRgb>>)
    /\ resizetype = "nearest"
    /\ Start

NextStates == IconStates \/ StripMetadata

SpecStates == InitStates /\ [][NextStates]_vars

\* every pixel stream
InitCreate ==
    /\ file \in {NoFile, Rgba1x1(Meta)}
    /\ dirExists \in (IF file = NoFile THEN BOOLEAN ELSE {TRUE})
    /\ \E wh \in CreateSizes : width = wh[1] /\ height = wh[2]
    /\ data \in Streams
    /\ resizetype = "nearest"
    /\ Start

NextCreate == CreatePng \/ IconStates

SpecCreate == InitCreate /\ [][NextCreate]_vars

(***************************************************************************)
(* Properties.                                                             *)
(***************************************************************************)
StripOk == op = "strip_metadata" /\ ret.ok

\* C1: after a successful strip_metadata the file decodes to no text chunk
\* of any kind and to the same width, height, colour type, bit depth and
\* pixel bytes as before, with the palette and the transparency chunk
\* written back.
C1_StripKeepsImage ==
    StripOk =>
        LET a == read_png(pre).val
            b == read_png(file)
        IN  /\ b.ok
            /\ b.val.frame_info = a.frame_info
            /\ b.val.image = a.image
            /\ b.val.reader.palette = a.reader.palette
            /\ b.val.reader.trns = a.reader.trns
            /\ b.val.reader.compressed_latin1_text = <<>>
            /\ b.val.reader.uncompressed_latin1_text = <<>>
            /\ b.val.reader.utf8_text = <<>>

\* a palette image with transparency and text chunks has been stripped
C1_Witness ==
    /\ StripOk
    /\ pre.color_type = "Indexed"
    /\ pre.palette.some /\ pre.trns.some
    /\ TextChunks(pre) # <<>>

\* C9: a second successful strip_metadata in a row leaves the file exactly
\* as the first one wrote it.
C9_StripIdempotent == (StripOk /\ streak = 2) => file = pre

\* two strips in a row of a file that had metadata and a palette
C9_Witness == StripOk /\ streak = 2 /\ file.palette.some /\ file.trns.some

(***************************************************************************)
(* The metadata scan, stated on the lines of each chunk.                   *)
(***************************************************************************)
\* the lines of chunk i of a file
ChunkLines(f, i) == Lines(f.ztxt[i].text)

\* the index of the first line holding the sentinel, or one past the end
FirstSentinel(ls) ==
    LET hit == {i \in 1..Len(ls) : Contains(ls[i], Sentinel)}
    IN  IF hit = {} THEN Len(ls) + 1 ELSE CHOOSE i \in hit : \A j \in hit : i <= j

BeforeSentinel(ls) == SubSeq(ls, 1, FirstSentinel(ls) - 1)

\* C2: read_states returns the names in order: chunks in storage order and
\* lines in file order; in each chunk the line holding `# END DMI` and every
\* later line give no name, whatever the chunks before it held; a name
\* that occurs twice is returned twice.
C2_StatesInOrder ==
    (op = "read_states" /\ ret.ok) =>
        /\ states = Flatten([i \in 1..Len(file.ztxt) |->
                                FilterMapNames(BeforeSentinel(ChunkLines(file, i)))])
        /\ ret.val = to_string(states)

\* LineStateQuoted as str::lines gives it: without the "\r" before "\n"
QuotedLine == SubSeq(LineStateQuoted, 1, Len(LineStateQuoted) - 1)

\* a chunk whose sentinel hides a state line, then a chunk that is scanned
C2_Witness ==
    /\ op = "read_states" /\ ret.ok
    /\ Len(file.ztxt) = 2
    /\ ChunkLines(file, 1) = <<LineSentinel, QuotedLine>>
    /\ ChunkLines(file, 2) = <<LineStateA>>
    /\ states = <<<<"a">>>>

\* the pattern as the claim words it: the trimmed line starts with the
\* prefix and ends with a quote
ClaimedMatch(line) ==
    StartsWith(Trim(line), StatePrefix) /\ EndsWith(Trim(line), Quote)

\* the same, with a closing quote that is not the quote of the prefix
Match(line) == ClaimedMatch(line) /\ Len(Trim(line)) > Len(StatePrefix)

\* what stands between the prefix and the final quote
Between(line) == SubSeq(Trim(line), Len(StatePrefix) + 1, Len(Trim(line)) - 1)

\* what the lines that match give, in order
NamesClaimed(ls) ==
    LET sel == SelectSeq(ls, ClaimedMatch) IN [i \in 1..Len(sel) |-> Between(sel[i])]

NamesMatched(ls) ==
    LET sel == SelectSeq(ls, Match) IN [i \in 1..Len(sel) |-> Between(sel[i])]

\* C3 as claimed: every line before the sentinel that starts with the
\* prefix and ends with a quote appends what stands between them; every
\* other line appends nothing.
C3_Claimed ==
    (op = "read_states" /\ ret.ok) =>
        states = Flatten([i \in 1..Len(file.ztxt) |->
                             NamesClaimed(BeforeSentinel(ChunkLines(file, i)))])

\* C3 amended: the same for the lines whose closing quote is not the quote
\* of the prefix itself; the bare line `state = "` appends nothing.
C3_Amended ==
    (op = "read_states" /\ ret.ok) =>
        states = Flatten([i \in 1..Len(file.ztxt) |->
                             NamesMatched(BeforeSentinel(ChunkLines(file, i)))])

\* a bare `state = "` line is skipped while a name with a quote in it is
\* returned as it stands
C3_Witness ==
    /\ op = "read_states" /\ ret.ok
    /\ Len(file.ztxt) = 1
    /\ ChunkLines(file, 1) = <<LineOpenQuote, QuotedLine, LineOther>>
    /\ states = <<<<"b", "\"", "c">>>>

\* C8 as claimed: what the host gets for a file that is read without error
\* and has no state is what it gets for a failed read.
C8_Claimed ==
    (op = "read_states" /\ ret.ok /\ states = <<>>) => out = dmi_icon_states(NoFile)

\* C8 amended: the host gets the empty string exactly when the read failed;
\* a file read without error and without states gives `[]`.
C8_Amended ==
    op = "read_states" =>
        /\ ret.ok <=> out # <<>>
        /\ (ret.ok /\ states = <<>>) => out = <<"[", "]">>

\* a failed read of an existing file: one of its chunks does not inflate
C8_Witness ==
    /\ op = "read_states" /\ ~ret.ok /\ out = <<>>
    /\ file.kind = "png" /\ Len(file.ztxt) = 2

(***************************************************************************)
(* The pixel stream, stated on the positions of its `#` bytes.             *)
(***************************************************************************)
Hashes(d) == {i \in 1..Len(d) : d[i] = "#"}
NumTokens(d) == Cardinality(Hashes(d))
NthHash(d, k) == CHOOSE i \in Hashes(d) : Cardinality({j \in Hashes(d) : j <= i}) = k

\* the k-th segment after the first `#`
Token(d, k) ==
    SubSeq(d, NthHash(d, k) + 1,
           IF k = NumTokens(d) THEN Len(d) ELSE NthHash(d, k + 1) - 1)

HexDigits == {"0", "1", "2", "3", "4", "5", "6", "7", "8", "9",
              "a", "b", "c", "d", "e", "f", "A", "B", "C", "D", "E", "F"}

HexValue(c) ==
    CASE c = "0" -> 0 [] c = "1" -> 1 [] c = "2" -> 2 [] c = "3" -> 3
      [] c = "4" -> 4 [] c = "5" -> 5 [] c = "6" -> 6 [] c = "7" -> 7
      [] c = "8" -> 8 [] c = "9" -> 9
      [] c \in {"a", "A"} -> 10 [] c \in {"b", "B"} -> 11
      [] c \in {"c", "C"} -> 12 [] c \in {"d", "D"} -> 13
      [] c \in {"e", "E"} -> 14 [] c \in {"f", "F"} -> 15

\* a token: 6 or 8 hex digits
ValidToken(t) == Len(t) \in {6, 8} /\ \A i \in 1..Len(t) : t[i] \in HexDigits

\* the j-th byte a valid token stands for
TokenByte(t, j) == 16 * HexValue(t[2 * j - 1]) + HexValue(t[2 * j])

TokenRgba(t) ==
    <<TokenByte(t, 1), TokenByte(t, 2), TokenByte(t, 3),
      IF Len(t) = 6 THEN 255 ELSE TokenByte(t, 4)>>

ParseStages == {"parse_width", "parse_height", "parse_data"}

SizesParse == parse_u32(width).ok /\ parse_u32(height).ok

\* C4: a pixel stream of N valid tokens, of 6 or of 8 digits in any mix, is
\* parsed to exactly 4N bytes, token k giving bytes 4k-3..4k as R, G, B, A,
\* with A = 255 for 6 digits; what stands before the first `#` is dropped;
\* the PNG that is written holds these bytes.
C4_PixelBytes ==
    (/\ op = "create_png"
     /\ SizesParse
     /\ \A k \in 1..NumTokens(data) : ValidToken(Token(data, k))) =>
        /\ stage \notin ParseStages
        /\ Len(result) = 4 * NumTokens(data)
        /\ \A k \in 1..NumTokens(data) :
             SubSeq(result, 4 * k - 3, 4 * k) = TokenRgba(Token(data, k))
        /\ ret.ok => file.pixels = result

\* a 6-digit and an 8-digit token after a lead that is not empty
C4_Witness ==
    /\ op = "create_png" /\ ret.ok
    /\ data = <<"P", "3", "#">> \o SegRgb \o <<"#">> \o SegRgba
    /\ result = <<10, 27, 44, 255, 255, 0, 128, 127>>

\* C5: a segment of 6 or 8 characters with a character that is no hex digit
\* makes create_png fail.
C5_Claimed ==
    (/\ op = "create_png"
     /\ \E k \in 1..NumTokens(data) :
          /\ Len(Token(data, k)) \in {6, 8}
          /\ \E i \in 1..Len(Token(data, k)) : Token(data, k)[i] \notin HexDigits) =>
        ~ret.ok

\* the segments whose length is neither 6 nor 8
BadLengths(d) == {k \in 1..NumTokens(d) : Len(Token(d, k)) \notin {6, 8}}

\* a channel that u8::from_str_radix takes: two hex digits, or one after "+"
ChannelTaken(t, j) ==
    t[2 * j] \in HexDigits /\ (t[2 * j - 1] \in HexDigits \/ t[2 * j - 1] = "+")

TokenTaken(t) == \A j \in 1..(Len(t) \div 2) : ChannelTaken(t, j)

\* C6 as claimed: a segment whose length is neither 6 nor 8 makes
\* create_png fail with InvalidPngData wherever it stands, and nothing is
\* written.
C6_Claimed ==
    (op = "create_png" /\ BadLengths(data) # {}) =>
        /\ ~ret.ok /\ ret.err = "InvalidPngData"
        /\ file = pre /\ dirExists = preDir

\* C6 amended: such a segment makes create_png fail with nothing written and
\* no buffer kept; the error is InvalidPngData when width and height parse
\* and every segment before the first such segment is taken, and otherwise
\* the integer-parse or UTF-8 error of that earlier failure.
C6_Amended ==
    (op = "create_png" /\ BadLengths(data) # {}) =>
        LET first == CHOOSE k \in BadLengths(data) : \A j \in BadLengths(data) : k <= j
        IN  /\ ~ret.ok
            /\ file = pre /\ dirExists = preDir
            /\ result = <<>>
            /\ stage \in ParseStages
            /\ ret.err = IF ~SizesParse THEN "ParseInt"
                         ELSE IF \A j \in 1..(first - 1) : TokenTaken(Token(data, j))
                         THEN "InvalidPngData"
                         ELSE IF ret.err = "Utf8" THEN "Utf8"
                         ELSE "ParseInt"

\* a short segment after a valid one, with a file at the path
C6_Witness ==
    /\ op = "create_png"
    /\ data = <<"#">> \o SegRgb \o <<"#">> \o SegShort
    /\ ret.err = "InvalidPngData"
    /\ pre = Rgba1x1(Meta) /\ file = pre

\* C7: a successful resize_png writes an image of exactly the requested
\* width and height.
C7_Claimed ==
    (op = "resize_png" /\ ret.ok) =>
        /\ file.width = parse_u32(width).val
        /\ file.height = parse_u32(height).val

\* C10: when create_png fails on width, height or the pixel stream, when
\* strip_metadata fails to open or decode, and when resize_png fails on
\* width, height, opening or decoding, no directory has been created and
\* the file is as it was; so a file that changed was written only after all
\* input had been parsed or decoded.
EarlyFailure ==
    \/ op = "create_png" /\ (~SizesParse \/ ~parse_pixel_stream(data).ok)
    \/ op = "strip_metadata" /\ ~read_png(pre).ok
    \/ op = "resize_png" /\ (~SizesParse \/ ~read_png(pre).ok)

C10_NoWriteBeforeValidation ==
    /\ EarlyFailure => (~ret.ok /\ file = pre /\ dirExists = preDir /\ stage \in Preflight)
    /\ (file # pre \/ dirExists # preDir) => stage \notin Preflight

\* create_png refused a pixel stream with no directory and no file there,
\* and neither exists afterwards
C10_Witness ==
    /\ op = "create_png" /\ SizesParse /\ ~parse_pixel_stream(data).ok
    /\ pre = NoFile /\ ~preDir
    /\ file = NoFile /\ ~dirExists

====
